---- MODULE Spec2Model ----
(***************************************************************************)
(* Model of src/src/app_prod.py (AgriSmart Flask API): the vegetation      *)
(* index engine compute_vegetation_indices, the recommendation table       *)
(* generate_recommendations and the request handler predict_gee.           *)
(*                                                                         *)
(* Numbers.  Band values are integer digital numbers coerced to float;     *)
(* index arithmetic is modelled over exact fractions n/d extended with     *)
(* the IEEE-754 specials the divisions can produce (+inf, -inf, NaN).      *)
(* ndvi_mean is carried in hundredths, nitrogen_level and the noise in     *)
(* tenths of kg/ha.                                                        *)
(***************************************************************************)
EXTENDS Integers, Sequences, FiniteSets, TLC

VARIABLES
    bands,            \* argument of compute_vegetation_indices
    indices,          \* its call state and returned mapping
    rec_args,         \* arguments of a direct generate_recommendations call
    rec_result,       \* its call state and returned record
    GEE_AVAILABLE,    \* module global, set at import (lines 24-30)
    gee_integration,  \* module global, set by load_trained_models
    pc,               \* position of the predict_gee handler
    data,             \* the request body as received
    aoi,              \* local aoi of predict_gee
    summary,          \* local summary of predict_gee
    ndvi_mean,        \* local ndvi_mean (hundredths)
    growth_stage,     \* local growth_stage
    nitrogen_level,   \* local nitrogen_level (tenths)
    noise,            \* the value np.random.normal returned (tenths)
    response,         \* the (body, status) the handler returned
    calls,            \* calls made by the current request, in order
    now,              \* last reading of the wall clock
    plan,             \* the fixed environment of the repeated-run scenario
    history           \* responses of the completed runs of that scenario

idx_vars == <<bands, indices>>
rec_vars == <<rec_args, rec_result>>
req_vars == <<GEE_AVAILABLE, gee_integration, pc, data, aoi, summary, ndvi_mean,
              growth_stage, nitrogen_level, noise, response, calls, now>>
rep_vars == <<plan, history>>
vars == <<idx_vars, rec_vars, req_vars, rep_vars>>

-----------------------------------------------------------------------------
(* Bounds of the model *)

\* pixels per raster
NPix == 1
\* largest digital number of a band pixel
MaxDN == 2

-----------------------------------------------------------------------------
(* Floating point values of the index engine *)

Fin(n, d) == [k |-> "fin", n |-> n, d |-> d]
NaN == [k |-> "nan", n |-> 0, d |-> 1]
Inf(s) == [k |-> "inf", n |-> s, d |-> 1]

\* ndarray.astype(float) of an integer pixel
astype_float(v) == Fin(v, 1)

FAdd(a, b) == Fin(a.n * b.d + b.n * a.d, a.d * b.d)
FSub(a, b) == Fin(a.n * b.d - b.n * a.d, a.d * b.d)
FMul(a, b) == Fin(a.n * b.n, a.d * b.d)

\* numpy true division of finite values: x/0 is +-inf, 0/0 is NaN (a
\* RuntimeWarning, not an exception)
FDiv(a, b) ==
    IF b.n = 0
    THEN IF a.n = 0 THEN NaN ELSE Inf(IF a.n > 0 THEN 1 ELSE -1)
    ELSE IF b.n > 0 THEN Fin(a.n * b.d, a.d * b.n)
         ELSE Fin(-(a.n * b.d), -(a.d * b.n))

\* np.clip(x, -1, 1) of one element
np_clip(x) ==
    CASE x.k = "nan" -> NaN
      [] x.k = "inf" -> Fin(x.n, 1)
      [] x.n > x.d -> Fin(1, 1)
      [] x.n < -x.d -> Fin(-1, 1)
      [] OTHER -> x

\* the 1e-8 of the NDVI and NDRE denominators, as 1/EpsDen
EpsDen == 100000000
EPS == Fin(1, EpsDen)

-----------------------------------------------------------------------------
(* compute_vegetation_indices *)

BandNames == {"B02", "B04", "B05", "B08"}
IndexNames == {"NDVI", "NDRE", "EVI"}
Pixels == 1..NPix
Rasters == [Pixels -> 0..MaxDN]
BandSets == UNION {[S -> Rasters] : S \in SUBSET BandNames}

NDVI_pixel(nir, red) ==
    np_clip(FDiv(FSub(nir, red), FAdd(FAdd(nir, red), EPS)))

NDRE_pixel(nir, red_edge) ==
    np_clip(FDiv(FSub(nir, red_edge), FAdd(FAdd(nir, red_edge), EPS)))

EVI_pixel(nir, red, blue) ==
    np_clip(FDiv(FMul(Fin(5, 2), FSub(nir, red)),
                 FAdd(FSub(FAdd(nir, FMul(Fin(6, 1), red)),
                           FMul(Fin(15, 2), blue)),
                      Fin(1, 1))))

EVI_bands_mut == {"B08", "B04", "B02", "B05"}
EVI_bands == {"B08", "B04", "B02"}

IndexKeys(b) ==
    (IF "B08" \in DOMAIN b /\ "B04" \in DOMAIN b THEN {"NDVI"} ELSE {})
    \cup (IF "B08" \in DOMAIN b /\ "B05" \in DOMAIN b THEN {"NDRE"} ELSE {})
    \cup (IF EVI_bands \subseteq DOMAIN b THEN {"EVI"} ELSE {})

compute_vegetation_indices(b) ==
    [i \in IndexKeys(b) |->
        [p \in Pixels |->
            CASE i = "NDVI" -> NDVI_pixel(astype_float(b["B08"][p]),
                                          astype_float(b["B04"][p]))
              [] i = "NDRE" -> NDRE_pixel(astype_float(b["B08"][p]),
                                          astype_float(b["B05"][p]))
              [] i = "EVI" -> EVI_pixel(astype_float(b["B08"][p]),
                                        astype_float(b["B04"][p]),
                                        astype_float(b["B02"][p]))]]

-----------------------------------------------------------------------------
(* generate_recommendations *)

\* largest nitrogen_level (tenths) given to a direct call
MaxNitrogenIn == 2100

\* kg/ha as tenths
T(x) == x * 10

nitrogen_low == 80
nitrogen_medium == 120
nitrogen_high == 160

Stages == {"vegetative", "tuber_initiation", "tuber_bulking", "maturation"}

nitrogen_status_mut(n) ==
    IF n <= T(nitrogen_low) THEN "low"
    ELSE IF n <= T(nitrogen_medium) THEN "medium" ELSE "high"

nitrogen_status(n) ==
    IF n < T(nitrogen_low) THEN "low"
    ELSE IF n < T(nitrogen_medium) THEN "medium" ELSE "high"

Max0(x) == IF x > 0 THEN x ELSE 0

\* f"{x:.0f}" of a non-negative x given in tenths: the nearest whole number,
\* ties to even
FormatF0_mut(x) == x \div 10

FormatF0(x) ==
    LET q == x \div 10
        r == x % 10
    IN  IF r < 5 THEN q
        ELSE IF r > 5 THEN q + 1
        ELSE IF q % 2 = 0 THEN q ELSE q + 1

Dose(target, n) == <<FormatF0(Max0(T(target) - n))>>

stage_table(gs, n) ==
    CASE gs = "vegetative" ->
           [irrigation |-> "Apply 1500-2000 L/ha weekly, maintain soil moisture",
            fertilizer |-> [pre |-> "Apply", dose |-> Dose(120, n),
                            post |-> "kg/ha N as basal dose"],
            management |-> "Focus on leaf development, control weeds"]
      [] gs = "tuber_initiation" ->
           [irrigation |-> "Apply 2000-2500 L/ha weekly, critical for tuber formation",
            fertilizer |-> [pre |-> "Apply", dose |-> Dose(140, n),
                            post |-> "kg/ha N as top dressing"],
            management |-> "Ensure adequate soil moisture, monitor for pests"]
      [] gs = "tuber_bulking" ->
           [irrigation |-> "Apply 2500-3000 L/ha weekly, maximum water requirement",
            fertilizer |-> [pre |-> "Apply", dose |-> Dose(160, n),
                            post |-> "kg/ha N + 60 kg/ha K"],
            management |-> "Critical stage for yield, maintain optimal conditions"]
      [] gs = "maturation" ->
           [irrigation |-> "Reduce to 1000-1500 L/ha, prepare for harvest",
            fertilizer |-> [pre |-> "No additional N required, focus on K for quality",
                            dose |-> <<>>, post |-> ""],
            management |-> "Prepare for harvest, monitor for diseases"]
      [] OTHER -> <<>>

generate_recommendations(gs, n) ==
    [growth_stage |-> gs,
     nitrogen_level |-> n,
     nitrogen_status |-> nitrogen_status(n),
     recommendations |-> stage_table(gs, n)]

-----------------------------------------------------------------------------
(* Direct calls of the two pure functions *)

NoCall == [returned |-> FALSE, value |-> <<>>]

IdxIdle == bands = <<>> /\ indices = NoCall
RecIdle == rec_args = [growth_stage |-> "vegetative", nitrogen_level |-> 0]
           /\ rec_result = NoCall

CallIndices ==
    /\ ~indices.returned
    /\ indices' = [returned |-> TRUE, value |-> compute_vegetation_indices(bands)]
    /\ UNCHANGED <<bands, rec_vars, req_vars, rep_vars>>

CallRecommend ==
    /\ ~rec_result.returned
    /\ rec_result' = [returned |-> TRUE,
                      value |-> generate_recommendations(rec_args.growth_stage,
                                                         rec_args.nitrogen_level)]
    /\ UNCHANGED <<rec_args, idx_vars, req_vars, rep_vars>>

-----------------------------------------------------------------------------
(* predict_gee: inputs from the environment *)

\* largest |ndvi_mean| the provider reports, in hundredths
MaxNdvi == 100
\* largest clock reading
MaxClock == 1
\* runs of the repeated-run scenario
MaxRuns == 2

None == [k |-> "none", v |-> 0]
Num(x) == [k |-> "num", v |-> x]
\* a non-numeric value such as "abc"
NonNumeric == [k |-> "str", v |-> 0]

\* lat / lon as they arrive in the JSON body: absent, a number in range, a
\* number out of range, a non-numeric string
LatValues == {None, Num(11), Num(999), NonNumeric}
LonValues == {None, Num(76), Num(999), NonNumeric}

MalformedBody == [body |-> "malformed", use_gee |-> "absent", lat |-> None, lon |-> None]
Requests ==
    [body : {"object"}, use_gee : {"absent", "true", "false"},
     lat : LatValues, lon : LonValues] \cup {MalformedBody}

NdviValues == (-MaxNdvi)..MaxNdvi
\* values of np.random.normal(0, 10), in tenths, from far below to far above
\* the clipping range
NoiseValues == {-3000, -127, -4, 0, 5, 3000}

\* what gee_integration.get_weekly_summary hands back: a summary with or
\* without the key ndvi_mean, or an exception
NoSummary == [k |-> "none", ndvi_mean |-> 0]
SummaryOutcomes ==
    {[k |-> "ok", ndvi_mean |-> n] : n \in NdviValues}
    \cup {[k |-> "no_ndvi", ndvi_mean |-> 0], [k |-> "raise", ndvi_mean |-> 0]}

NoAoi == [k |-> "none", lon |-> 0, lat |-> 0, buffer |-> 0]
Buffer(lon, lat) == [k |-> "buffer", lon |-> lon, lat |-> lat, buffer |-> 1000]

NoResponse == [status |-> 0, body |-> <<>>]
ErrorResponse(msg, code) == [status |-> code, body |-> [error |-> msg]]

NoPlan == [data |-> MalformedBody, ee_ok |-> FALSE, fetch_ok |-> FALSE,
           summary |-> NoSummary, noise |-> 0]

\* float(x) raises for a non-numeric value
float_ok(x) == x.k = "num"

\* lines 229-237: the AOI from lat/lon, None when either is missing or when
\* float() or ee.Geometry.Point raises
aoi_mut(d, ee_ok) ==
    IF d.lat.k # "none" /\ d.lon.k # "none" /\ ee_ok
    THEN Buffer(d.lon.v, d.lat.v)
    ELSE NoAoi

aoi_of(d, ee_ok) ==
    IF d.lat.k # "none" /\ d.lon.k # "none"
    THEN IF float_ok(d.lon) /\ float_ok(d.lat) /\ ee_ok
         THEN Buffer(d.lon.v, d.lat.v)
         ELSE NoAoi
    ELSE NoAoi

\* lines 249-256
classify_mut(n) ==
    IF n <= 30 THEN "vegetative"
    ELSE IF n <= 50 THEN "tuber_initiation"
    ELSE IF n <= 70 THEN "tuber_bulking"
    ELSE "maturation"

classify_gap_mut(n) ==
    IF n < 0 THEN "unknown"
    ELSE IF n < 30 THEN "vegetative"
    ELSE IF n < 50 THEN "tuber_initiation"
    ELSE IF n < 70 THEN "tuber_bulking"
    ELSE "maturation"

classify(n) ==
    IF n < 30 THEN "vegetative"
    ELSE IF n < 50 THEN "tuber_initiation"
    ELSE IF n < 70 THEN "tuber_bulking"
    ELSE "maturation"

Clip(x, lo, hi) == IF x < lo THEN lo ELSE IF x > hi THEN hi ELSE x

\* lines 259-260, in tenths: 80 + ndvi_mean*100 + noise, clipped to [40, 200]
nitrogen_mut(n, z) == T(80) + n * 10 + z

nitrogen_of(n, z) == Clip(T(80) + n * 10 + z, T(40), T(200))

\* lines 265-276
success_body_mut(gs, nl, nm, recs, ts, s) ==
    [success |-> TRUE,
     predictions |-> [growth_stage |-> gs, nitrogen_level |-> nl, ndvi_mean |-> nm,
                      computed_at |-> ts],
     recommendations |-> recs,
     timestamp |-> ts,
     data_source |-> "Google Earth Engine",
     gee_summary |-> s]

success_body(gs, nl, nm, recs, ts, s) ==
    [success |-> TRUE,
     predictions |-> [growth_stage |-> gs, nitrogen_level |-> nl, ndvi_mean |-> nm],
     recommendations |-> recs,
     timestamp |-> ts,
     data_source |-> "Google Earth Engine",
     gee_summary |-> s]

Call(fn, a) == [fn |-> fn, aoi |-> a]

-----------------------------------------------------------------------------
(* predict_gee: the handler, step by step *)

Locals0 ==
    /\ data = MalformedBody
    /\ aoi = NoAoi
    /\ summary = NoSummary
    /\ ndvi_mean = 0
    /\ growth_stage = ""
    /\ nitrogen_level = 0
    /\ noise = 0
    /\ response = NoResponse
    /\ calls = <<>>

ReqInit ==
    /\ GEE_AVAILABLE \in BOOLEAN
    /\ gee_integration = "None"
    /\ pc = "boot"
    /\ now = 0
    /\ Locals0

\* lines 381-383 with lines 69-80: the script is run, load_trained_models sets
\* gee_integration (None when the import or the constructor failed)
load_trained_models(init_ok) ==
    /\ pc = "boot"
    /\ gee_integration' = IF GEE_AVAILABLE /\ init_ok THEN "GEEIntegration" ELSE "None"
    /\ pc' = "idle"
    /\ UNCHANGED <<GEE_AVAILABLE, data, aoi, summary, ndvi_mean, growth_stage,
                   nitrogen_level, noise, response, calls, now>>

\* line 381: the module is imported by a WSGI server, nothing is loaded
ImportedByServer ==
    /\ pc = "boot"
    /\ pc' = "idle"
    /\ UNCHANGED <<GEE_AVAILABLE, gee_integration, data, aoi, summary, ndvi_mean,
                   growth_stage, nitrogen_level, noise, response, calls, now>>

\* lines 218-237: a request d arrives; the precondition checks, the body, the AOI
Entry(d, ee_ok) ==
    /\ pc = "idle"
    /\ data' = d
    /\ IF ~GEE_AVAILABLE \/ gee_integration = "None"
       THEN /\ response' = ErrorResponse("GEE integration not available", 400)
            /\ pc' = "done"
            /\ aoi' = aoi
       ELSE IF d.body = "malformed"
       THEN /\ response' = ErrorResponse("get_json failed", 500)
            /\ pc' = "done"
            /\ aoi' = aoi
       ELSE IF d.use_gee = "false"
       THEN /\ response' = ErrorResponse("GEE prediction requested but use_gee is False", 400)
            /\ pc' = "done"
            /\ aoi' = aoi
       ELSE /\ aoi' = aoi_of(d, ee_ok)
            /\ pc' = "fetch"
            /\ response' = response
    /\ UNCHANGED <<GEE_AVAILABLE, gee_integration, summary, ndvi_mean, growth_stage,
                   nitrogen_level, noise, calls, now>>

\* line 240 with a retry loop around the provider call
FetchImage_retry_mut(ok) ==
    /\ pc = "fetch"
    /\ calls' = Append(calls, Call("get_weekly_sentinel2_data", aoi))
    /\ pc' = IF ok THEN "summary" ELSE "fetch"
    /\ UNCHANGED <<GEE_AVAILABLE, gee_integration, data, aoi, summary, ndvi_mean,
                   growth_stage, nitrogen_level, noise, now, response>>

\* line 240: gee_integration.get_weekly_sentinel2_data(aoi=aoi)
FetchImage(ok) ==
    /\ pc = "fetch"
    /\ calls' = Append(calls, Call("get_weekly_sentinel2_data", aoi))
    /\ IF ok
       THEN pc' = "summary" /\ response' = response
       ELSE pc' = "done" /\ response' = ErrorResponse("get_weekly_sentinel2_data failed", 500)
    /\ UNCHANGED <<GEE_AVAILABLE, gee_integration, data, aoi, summary, ndvi_mean,
                   growth_stage, nitrogen_level, noise, now>>

\* line 243: gee_integration.get_weekly_summary(gee_image)
GetSummary(s) ==
    /\ pc = "summary"
    /\ calls' = Append(calls, Call("get_weekly_summary", NoAoi))
    /\ IF s.k = "raise"
       THEN /\ pc' = "done"
            /\ response' = ErrorResponse("get_weekly_summary failed", 500)
            /\ summary' = summary
       ELSE /\ pc' = "classify"
            /\ summary' = s
            /\ response' = response
    /\ UNCHANGED <<GEE_AVAILABLE, gee_integration, data, aoi, ndvi_mean, growth_stage,
                   nitrogen_level, noise, now>>

\* line 246: summary['ndvi_mean'] raises KeyError when the key is missing
has_ndvi_mut(s) == TRUE

has_ndvi(s) == s.k = "ok"

\* lines 246-260: ndvi_mean, the growth stage, the nitrogen level with noise z
Classify(z) ==
    /\ pc = "classify"
    /\ IF has_ndvi(summary)
       THEN /\ ndvi_mean' = summary.ndvi_mean
            /\ growth_stage' = classify(summary.ndvi_mean)
            /\ noise' = z
            /\ nitrogen_level' = nitrogen_of(summary.ndvi_mean, z)
            /\ pc' = "recommend"
            /\ response' = response
       ELSE /\ pc' = "done"
            /\ response' = ErrorResponse("'ndvi_mean'", 500)
            /\ UNCHANGED <<ndvi_mean, growth_stage, noise, nitrogen_level>>
    /\ UNCHANGED <<GEE_AVAILABLE, gee_integration, data, aoi, summary, calls, now>>

\* lines 263-276: generate_recommendations, then the success response stamped
\* with datetime.now(), a reading t not before the previous one
Respond(t) ==
    /\ pc = "recommend"
    /\ t >= now
    /\ calls' = Append(calls, Call("generate_recommendations", NoAoi))
    /\ now' = t
    /\ response' = [status |-> 200,
                    body |-> success_body(growth_stage, nitrogen_level, ndvi_mean,
                                generate_recommendations(growth_stage, nitrogen_level),
                                t, summary)]
    /\ pc' = "done"
    /\ UNCHANGED <<GEE_AVAILABLE, gee_integration, data, aoi, summary, ndvi_mean,
                   growth_stage, nitrogen_level, noise>>

\* the handler has returned: its locals are gone, the next request may come
Return ==
    /\ pc = "done"
    /\ pc' = "idle"
    /\ data' = MalformedBody
    /\ aoi' = NoAoi
    /\ summary' = NoSummary
    /\ ndvi_mean' = 0
    /\ growth_stage' = ""
    /\ nitrogen_level' = 0
    /\ noise' = 0
    /\ response' = NoResponse
    /\ calls' = <<>>
    /\ UNCHANGED <<GEE_AVAILABLE, gee_integration, now>>

-----------------------------------------------------------------------------
(* Specifications *)

Others == <<idx_vars, rec_vars, rep_vars>>

\* the service: start-up, then requests one after another
Init ==
    /\ IdxIdle
    /\ RecIdle
    /\ ReqInit
    /\ plan = NoPlan
    /\ history = <<>>

Next ==
    \/ \E ok \in BOOLEAN : load_trained_models(ok) /\ UNCHANGED Others
    \/ ImportedByServer /\ UNCHANGED Others
    \/ \E d \in Requests, ok \in BOOLEAN : Entry(d, ok) /\ UNCHANGED Others
    \/ \E ok \in BOOLEAN : FetchImage(ok) /\ UNCHANGED Others
    \/ \E s \in SummaryOutcomes : GetSummary(s) /\ UNCHANGED Others
    \/ \E z \in NoiseValues : Classify(z) /\ UNCHANGED Others
    \/ \E t \in 0..MaxClock : Respond(t) /\ UNCHANGED Others
    \/ Return /\ UNCHANGED Others

Spec == Init /\ [][Next]_vars

\* compute_vegetation_indices called on every BandSet
InitIdx ==
    /\ bands \in BandSets
    /\ indices = NoCall
    /\ RecIdle
    /\ ReqInit /\ GEE_AVAILABLE
    /\ plan = NoPlan
    /\ history = <<>>

NextIdx == CallIndices

SpecIdx == InitIdx /\ [][NextIdx]_vars

\* generate_recommendations called on every (growth_stage, nitrogen_level)
InitRec ==
    /\ IdxIdle
    /\ rec_args \in [growth_stage : Stages \cup {"unknown"},
                     nitrogen_level : 0..MaxNitrogenIn]
    /\ rec_result = NoCall
    /\ ReqInit /\ GEE_AVAILABLE
    /\ plan = NoPlan
    /\ history = <<>>

NextRec == CallRecommend

SpecRec == InitRec /\ [][NextRec]_vars

\* the same request served MaxRuns times in an unchanged environment: the
\* provider, ee and the noise source answer every run as plan says
PlanSummaries ==
    {[k |-> "ok", ndvi_mean |-> n] : n \in {29, 30, 50, 69, 70}}
    \cup {[k |-> "no_ndvi", ndvi_mean |-> 0], [k |-> "raise", ndvi_mean |-> 0]}

Plans ==
    [data : Requests, ee_ok : BOOLEAN, fetch_ok : BOOLEAN,
     summary : PlanSummaries, noise : NoiseValues]

InitTwice ==
    /\ IdxIdle
    /\ RecIdle
    /\ ReqInit
    /\ plan \in Plans
    /\ history = <<>>

ReturnRecorded ==
    /\ Return
    /\ history' = Append(history, response)
    /\ UNCHANGED <<idx_vars, rec_vars, plan>>

NextTwice ==
    \/ \E ok \in BOOLEAN : load_trained_models(ok) /\ UNCHANGED Others
    \/ ImportedByServer /\ UNCHANGED Others
    \/ Len(history) < MaxRuns /\ Entry(plan.data, plan.ee_ok) /\ UNCHANGED Others
    \/ FetchImage(plan.fetch_ok) /\ UNCHANGED Others
    \/ GetSummary(plan.summary) /\ UNCHANGED Others
    \/ Classify(plan.noise) /\ UNCHANGED Others
    \/ \E t \in 0..MaxClock : Respond(t) /\ UNCHANGED Others
    \/ ReturnRecorded

SpecTwice == InitTwice /\ [][NextTwice]_vars

-----------------------------------------------------------------------------
(* Properties *)

IsSuccess(r) == "success" \in DOMAIN r.body /\ r.body.success
IsFailure(r) == r.status \in {400, 500} /\ DOMAIN r.body = {"error"}
Called(fn) == \E i \in 1..Len(calls) : calls[i].fn = fn

InUnit(x) == x.k = "fin" /\ -x.d <= x.n /\ x.n <= x.d

\* C1: every element of every index compute_vegetation_indices returns is a
\* finite number within [-1, 1] (never NaN, never infinite), for every BandSet
\* of finite band values.
C1_IndicesFiniteInUnit ==
    indices.returned =>
        \A i \in DOMAIN indices.value : \A p \in Pixels : InUnit(indices.value[i][p])

Required(i) ==
    CASE i = "NDVI" -> {"B08", "B04"}
      [] i = "NDRE" -> {"B08", "B05"}
      [] i = "EVI" -> {"B08", "B04", "B02"}

\* C2: for every subset of the bands supplied, the call returns and an index
\* key is present exactly when all the bands it requires are present; with B08
\* missing no index is present.
C2_KeyIffRequiredBands ==
    indices.returned =>
        /\ \A i \in IndexNames :
               i \in DOMAIN indices.value <=> Required(i) \subseteq DOMAIN bands
        /\ "B08" \notin DOMAIN bands => DOMAIN indices.value = {}

C2_Witness ==
    /\ indices.returned
    /\ DOMAIN bands = {"B02", "B04", "B05"}
    /\ DOMAIN indices.value = {}

\* C3: the growth stage predict_gee computes is vegetative below 0.3,
\* tuber_initiation on [0.3, 0.5), tuber_bulking on [0.5, 0.7) and maturation
\* from 0.7 on; exactly one of the four stages is assigned.
C3_StageByThreshold ==
    pc = "recommend" =>
        /\ growth_stage \in Stages
        /\ ndvi_mean < 30 <=> growth_stage = "vegetative"
        /\ (30 <= ndvi_mean /\ ndvi_mean < 50) <=> growth_stage = "tuber_initiation"
        /\ (50 <= ndvi_mean /\ ndvi_mean < 70) <=> growth_stage = "tuber_bulking"
        /\ ndvi_mean >= 70 <=> growth_stage = "maturation"

C3_Witness ==
    pc = "recommend" /\ ndvi_mean = 30 /\ growth_stage = "tuber_initiation"

\* C4: nitrogen_level is clip(80 + 100*ndvi_mean + noise, 40, 200), so it lies
\* in [40, 200] in every success response whatever the noise; with noise 0 and
\* ndvi_mean 0.5 it is exactly 130.
C4_NitrogenClipped ==
    IsSuccess(response) =>
        LET nl == response.body.predictions.nitrogen_level
            raw == 800 + 10 * response.body.predictions.ndvi_mean + noise
        IN  /\ 400 <= nl /\ nl <= 2000
            /\ raw < 400 => nl = 400
            /\ raw > 2000 => nl = 2000
            /\ (400 <= raw /\ raw <= 2000) => nl = raw
            /\ (noise = 0 /\ response.body.predictions.ndvi_mean = 50) => nl = 1300

C4_Witness ==
    /\ IsSuccess(response)
    /\ noise = 3000
    /\ response.body.predictions.nitrogen_level = 2000

Target(gs) ==
    CASE gs = "vegetative" -> 120
      [] gs = "tuber_initiation" -> 140
      [] gs = "tuber_bulking" -> 160

Abs(x) == IF x < 0 THEN -x ELSE x

\* C5 as stated: the N dose in the fertilizer guidance equals
\* max(0, target - nitrogen_level) (target 120 / 140 / 160 by stage), and
\* maturation states no N dose.
C5_DoseExact ==
    (rec_result.returned /\ rec_args.growth_stage \in Stages) =>
        LET f == rec_result.value.recommendations.fertilizer
            n == rec_args.nitrogen_level
        IN  IF rec_args.growth_stage = "maturation"
            THEN f.dose = <<>>
            ELSE /\ Len(f.dose) = 1
                 /\ 10 * f.dose[1] = Max0(10 * Target(rec_args.growth_stage) - n)

\* C5 amended: the N dose stated is max(0, target - nitrogen_level) rounded to
\* the nearest whole number, ties to even; it is never negative and is 0
\* whenever nitrogen_level >= target; tuber_bulking adds 60 kg/ha K; maturation
\* states no N dose.
C5_DoseRounded ==
    (rec_result.returned /\ rec_args.growth_stage \in Stages) =>
        LET f == rec_result.value.recommendations.fertilizer
            n == rec_args.nitrogen_level
            gs == rec_args.growth_stage
        IN  IF gs = "maturation"
            THEN f.dose = <<>>
            ELSE LET x == Max0(10 * Target(gs) - n)
                     d == f.dose[1]
                 IN  /\ Len(f.dose) = 1
                     /\ d >= 0
                     /\ Abs(10 * d - x) <= 5
                     /\ Abs(10 * d - x) = 5 => d % 2 = 0
                     /\ n >= 10 * Target(gs) => d = 0
                     /\ (gs = "vegetative" /\ n = 1000) => d = 20
                     /\ (gs = "tuber_bulking" /\ n = 2000) => d = 0
                     /\ gs = "tuber_bulking" <=> f.post = "kg/ha N + 60 kg/ha K"

C5_Witness ==
    /\ rec_result.returned
    /\ rec_args = [growth_stage |-> "vegetative", nitrogen_level |-> 1004]
    /\ rec_result.value.recommendations.fertilizer.dose = <<20>>

\* C6: nitrogen_status is low below 80, medium on [80, 120) and high from 120
\* on, whatever the growth stage.
C6_StatusByThreshold ==
    rec_result.returned =>
        LET n == rec_args.nitrogen_level
            st == rec_result.value.nitrogen_status
        IN  /\ n < 800 <=> st = "low"
            /\ (800 <= n /\ n < 1200) <=> st = "medium"
            /\ n >= 1200 <=> st = "high"

C6_Witness ==
    /\ rec_result.returned
    /\ rec_args = [growth_stage |-> "unknown", nitrogen_level |-> 800]
    /\ rec_result.value.nitrogen_status = "medium"

\* C7: when the summary lacks the NDVI mean the request ends in a failure
\* response carrying an error description; no growth stage or nitrogen level
\* is computed, generate_recommendations is not called, and no success
\* response is produced.
C7_MissingNdviFails ==
    summary.k = "no_ndvi" =>
        /\ pc \in {"classify", "done"}
        /\ growth_stage = "" /\ nitrogen_level = 0
        /\ ~Called("generate_recommendations")
        /\ ~IsSuccess(response)
        /\ pc = "done" => (IsFailure(response) /\ response.body.error # "")

C7_Witness ==
    summary.k = "no_ndvi" /\ pc = "done" /\ response.status = 500

NonNumericSupplied(d) == d.lat.k = "str" \/ d.lon.k = "str"
OutOfRangeSupplied(d) ==
    \/ d.lat.k = "num" /\ (d.lat.v < -90 \/ d.lat.v > 90)
    \/ d.lon.k = "num" /\ (d.lon.v < -180 \/ d.lon.v > 180)
InvalidLatLon(d) ==
    d.body = "object" /\ (NonNumericSupplied(d) \/ OutOfRangeSupplied(d))
InHandler == pc \in {"fetch", "summary", "classify", "recommend", "done"}

Runs == 1..Len(history)

\* C9 as stated: two runs of predict_gee on identical input, with the same
\* summary and the same fixed noise, give responses equal in every field.
C9_RunsIdentical ==
    \A i \in Runs : \A j \in Runs : history[i] = history[j]

WithoutTimestamp(r) ==
    [status |-> r.status,
     body |-> [f \in DOMAIN r.body \ {"timestamp"} |-> r.body[f]]]

\* C9 amended: two such runs give responses equal in every field except
\* timestamp (status, success, predictions, recommendations, data_source and
\* gee_summary, or the error, are equal).
C9_RunsIdenticalButTimestamp ==
    \A i \in Runs : \A j \in Runs :
        WithoutTimestamp(history[i]) = WithoutTimestamp(history[j])

C9_Witness ==
    /\ Len(history) = 2
    /\ IsSuccess(history[1]) /\ IsSuccess(history[2])
    /\ history[1].body.timestamp # history[2].body.timestamp

\* C10: in every success response growth_stage is one of the four stages,
\* recommendations.growth_stage equals predictions.growth_stage and the
\* recommendation body has irrigation, fertilizer and management guidance; an
\* empty body arises only for a stage outside the four.
C10_StageKnownBodyFull ==
    /\ IsSuccess(response) =>
           LET b == response.body
           IN  /\ b.predictions.growth_stage \in Stages
               /\ b.recommendations.growth_stage = b.predictions.growth_stage
               /\ DOMAIN b.recommendations.recommendations
                      = {"irrigation", "fertilizer", "management"}
    /\ \A gs \in Stages \cup {"unknown"} :
           DOMAIN stage_table(gs, nitrogen_level) = {} <=> gs \notin Stages

C10_Witness ==
    /\ IsSuccess(response)
    /\ response.body.predictions.ndvi_mean = -MaxNdvi
    /\ response.body.recommendations.growth_stage = "vegetative"
    /\ DOMAIN response.body.recommendations.recommendations
           = {"irrigation", "fertilizer", "management"}

CallOrder == <<"get_weekly_sentinel2_data", "get_weekly_summary",
               "generate_recommendations">>
PreconditionFails(d) ==
    \/ ~GEE_AVAILABLE
    \/ gee_integration = "None"
    \/ d.body = "object" /\ d.use_gee = "false"

\* C11: a request arriving while the GEE module is unavailable or
\* gee_integration is not initialised, or setting use_gee to false, ends with
\* a 400 error response and no provider call; in every request the image
\* fetch is called at most once and before the summary call, and nothing is
\* called again after a failure.
C11_PreconditionsBeforeProvider ==
    InHandler =>
        /\ PreconditionFails(data) =>
               /\ pc = "done"
               /\ response.status = 400 /\ IsFailure(response)
               /\ calls = <<>>
        /\ Len(calls) <= Len(CallOrder)
        /\ \A i \in 1..Len(calls) : calls[i].fn = CallOrder[i]
        /\ (pc = "done" /\ IsFailure(response)) =>
               ~Called("generate_recommendations")
        /\ pc = "fetch" => calls = <<>>
        /\ pc = "summary" => Len(calls) = 1

C11_Witness ==
    /\ pc = "done"
    /\ GEE_AVAILABLE /\ gee_integration = "GEEIntegration"
    /\ data.body = "object" /\ data.use_gee = "false"
    /\ response = ErrorResponse("GEE prediction requested but use_gee is False", 400)
    /\ calls = <<>>

====
